---- MODULE Spec2Model ----
(***************************************************************************)
(* A model of fast_llm/engine/checkpoint/config.py: the checkpoint format  *)
(* descriptors, the load-scope enumeration, the checkpoint configuration   *)
(* classes (setup, validation, legacy-key remapping in _from_dict), the    *)
(* safetensors metadata codec and the handler protocol.                    *)
(*                                                                         *)
(* Four specifications share the module, one per part of the file:         *)
(*   Spec       a configuration object under setup() and validate()        *)
(*   SpecParse  _from_dict on a structured dict                            *)
(*   SpecCodec  export_safetensors_metadata / import_safetensors_metadata  *)
(*   SpecLoad   one save / load invocation of a checkpoint handler         *)
(***************************************************************************)
EXTENDS Integers, Sequences, FiniteSets, TLC

VARIABLES
    \* ---- a checkpoint configuration object (Spec)
    cls,                 \* the concrete config class of the object
    format,              \* CheckpointConfigBase.format: a str or a format class
    validated,           \* Config._validated
    load_config,         \* CheckpointLoadMetadataConfig.load_config
    parameters_per_file, \* CheckpointSaveConfigBase.parameters_per_file
    call,                \* the last method called on the object
    err,                 \* the exception the last call raised, or "none"
    fieldErrs,           \* the field errors the last validation collected
    prevFormat,          \* format before the last call
    prevValidated,       \* _validated before the last call
    nsetup,              \* how many times setup was called
    \* ---- one _from_dict call chain (SpecParse)
    parseCls,            \* the class _from_dict is called on
    rawDict,             \* the dict as the caller built it
    default,             \* the dict `default`, mutated in place
    passedOn,            \* the dict CheckpointConfigBase._from_dict hands to super()
    warned,              \* the warnings.warn calls of the last parse, in order
    nparse,              \* how many times the dict was parsed
    \* ---- the metadata codec (SpecCodec)
    metadata,            \* the mapping given to export_safetensors_metadata
    exported,            \* its result, a str -> str mapping
    imported,            \* import_safetensors_metadata of that
    codecPc,             \* "start", "exported", "imported"
    \* ---- a checkpoint handler invocation (SpecLoad)
    hstate,              \* Unbound, Bound, Loading, Restoring, Done, Failed
    ckptVersion,         \* the version recorded in the checkpoint on disk
    ckptWriter,          \* "this_build" when save() of this build wrote it
    stateCfg,            \* the load config: load_config, model_weights, optimizer_state
    restored,            \* the subsystems restored so far
    failure              \* the error the invocation failed with, or "none"

cfgVars == <<cls, format, validated, load_config, parameters_per_file, call, err,
             fieldErrs, prevFormat, prevValidated, nsetup>>
parseVars == <<parseCls, rawDict, default, passedOn, warned, nparse>>
codecVars == <<metadata, exported, imported, codecPc>>
loadVars == <<hstate, ckptVersion, ckptWriter, stateCfg, restored, failure>>
vars == <<cfgVars, parseVars, codecVars, loadVars>>

\* The representation of Python's None; no string of the model equals it.
None == "<None>"

(***************************************************************************)
(* Checkpoint formats                                                      *)
(***************************************************************************)

\* class CheckpointFormat: the capability flags and their defaults.
CheckpointFormat(n) ==
    [kind |-> "class", name |-> n, support_optimizer |-> TRUE, support_saving |-> TRUE,
     support_loading |-> TRUE, enforce_architecture_match |-> FALSE]

DistributedCheckpointFormat ==
    [CheckpointFormat("distributed") EXCEPT !.enforce_architecture_match = TRUE]

StateDictCheckpointFormat ==
    CheckpointFormat("state_dict")

\* A format still given as a bare string (from a file or the command line).
FormatName(n) == [kind |-> "str", name |-> n]

\* FastLLMModelConfig.checkpoint_formats: the formats of the model.
checkpoint_formats == {DistributedCheckpointFormat, StateDictCheckpointFormat}

\* FastLLMModelConfig.get_checkpoint_format: a format class is returned as it is,
\* a name is looked up among the model's formats.
get_checkpoint_format(f) ==
    IF f.kind = "class"
    THEN IF f \in checkpoint_formats
         THEN [raised |-> "none", value |-> f]
         ELSE [raised |-> "ValueError", value |-> f]
    ELSE IF \E c \in checkpoint_formats : c.name = f.name
         THEN [raised |-> "none", value |-> CHOOSE c \in checkpoint_formats : c.name = f.name]
         ELSE [raised |-> "ValueError", value |-> f]

(***************************************************************************)
(* ModelConfigType                                                         *)
(***************************************************************************)

ModelConfigType == {"none", "architecture", "model", "fast_llm"}

load_architecture(t) == t # "none"

load_base_model_AlsoArchitecture(t) == t \in {"architecture", "model", "fast_llm"}

load_base_model(t) == t \in {"model", "fast_llm"}

load_fast_llm(t) == t = "fast_llm"

(***************************************************************************)
(* parameters_per_file: Python integers are unbounded and the default is   *)
(* 2**32, so a value is kept as two limbs, hi * 2**16 + lo.                *)
(***************************************************************************)

Limb == 2 ^ 16

Int2(h, l) == [hi |-> h, lo |-> l]

\* Assert.geq(x, y): x >= y
Assert_geq(x, y) == x.hi > y.hi \/ (x.hi = y.hi /\ x.lo >= y.lo)

\* Field(default=2**32, ...)
parameters_per_file_default == Int2(2 ^ 16, 0)

parameters_per_file_valid_LowMinimum(v) == Assert_geq(v, Int2(0, 2 ^ 10))

\* valid=check_field(Assert.geq, 2**20)
parameters_per_file_valid(v) == Assert_geq(v, Int2(2 ^ 4, 0))

(***************************************************************************)
(* The configuration classes                                               *)
(***************************************************************************)

SaveClasses == {"CheckpointSaveConfig"}
LoadClasses == {"CheckpointLoadMetadataConfig", "CheckpointLoadConfig"}

\* The field is absent from the class.
NoField == "<no field>"

setup_NoAssert(v, f) ==
    LET r == get_checkpoint_format(f)
    IN  [raised |-> r.raised, format |-> r.value]

\* CheckpointConfigBase.setup on an object with _validated = v and format = f.
setup(v, f) ==
    IF v
    THEN [raised |-> "AssertionError", format |-> f]
    ELSE LET r == get_checkpoint_format(f)
         IN  [raised |-> r.raised, format |-> r.value]

\* Config._validate: the field-level checks of the object's class.
Config_validate(c, f, ppf) ==
    (IF f.kind = "str" THEN {"format"} ELSE {})
    \cup (IF c \in SaveClasses /\ ~parameters_per_file_valid(ppf)
          THEN {"parameters_per_file"} ELSE {})

CheckpointLoadMetadataConfig_validate_NoScopeCheck(c, f, lc, ppf) ==
    LET e == Config_validate(c, f, ppf)
    IN  IF e # {} THEN [raised |-> "ValidationError", fields |-> e]
        ELSE [raised |-> "none", fields |-> {}]

\* _validate of class c: Config._validate, then for the load classes
\* CheckpointLoadMetadataConfig._validate's assertion.
CheckpointLoadMetadataConfig_validate(c, f, lc, ppf) ==
    LET e == Config_validate(c, f, ppf)
    IN  IF e # {} THEN [raised |-> "ValidationError", fields |-> e]
        ELSE IF c \in LoadClasses /\ f.enforce_architecture_match /\ ~load_architecture(lc)
             THEN [raised |-> "AssertionError", fields |-> {}]
             ELSE [raised |-> "none", fields |-> {}]

compare_log_fn_Swapped(lc) == IF load_architecture(lc) THEN "logger.warning" ELSE "ValueError"

\* CheckpointLoadMetadataConfig.compare_log_fn
compare_log_fn(lc) == IF load_architecture(lc) THEN "ValueError" ELSE "logger.warning"

\* ---- bounds of the configuration specification
MaxSetups == 3

FormatInputs ==
    {FormatName("distributed"), FormatName("state_dict"), FormatName("unknown_format_xyz"),
     DistributedCheckpointFormat, StateDictCheckpointFormat}

ParameterInputs ==
    {Int2(h, l) : h \in {0, 15, 16, 17, 2 ^ 16}, l \in {0, 1, Limb - 1}}

CfgIdle ==
    /\ UNCHANGED <<parseVars, codecVars, loadVars>>

\* The parts of the module a specification leaves out stay at these values.
CodecOff ==
    /\ metadata = <<>> /\ exported = <<>> /\ imported = <<>> /\ codecPc = "off"

LoadOff ==
    /\ hstate = "off" /\ ckptVersion = "" /\ ckptWriter = "" /\ stateCfg = <<>>
    /\ restored = {} /\ failure = "none"

ParseOff ==
    /\ parseCls = "none" /\ rawDict = <<>> /\ default = <<>> /\ passedOn = <<>>
    /\ warned = <<>> /\ nparse = 0

\* A freshly constructed, not yet validated configuration object.
Init ==
    /\ cls \in SaveClasses \cup LoadClasses
    /\ format \in FormatInputs
    /\ validated = FALSE
    /\ load_config \in (IF cls \in LoadClasses THEN ModelConfigType ELSE {NoField})
    /\ parameters_per_file \in (IF cls \in SaveClasses THEN ParameterInputs ELSE {NoField})
    /\ call = "construct" /\ err = "none" /\ fieldErrs = {}
    /\ prevFormat = format /\ prevValidated = FALSE /\ nsetup = 0
    /\ ParseOff /\ CodecOff /\ LoadOff

\* config.setup(model_config)
Setup ==
    /\ nsetup < MaxSetups
    /\ LET r == setup(validated, format)
       IN  /\ format' = r.format
           /\ err' = r.raised
    /\ call' = "setup" /\ fieldErrs' = {}
    /\ prevFormat' = format /\ prevValidated' = validated
    /\ nsetup' = nsetup + 1
    /\ UNCHANGED <<cls, validated, load_config, parameters_per_file>>
    /\ CfgIdle

\* config.validate(): _validate runs once; _validated is set when it raised nothing.
Validate ==
    /\ LET r == IF validated
                THEN [raised |-> "none", fields |-> {}]
                ELSE CheckpointLoadMetadataConfig_validate(cls, format, load_config,
                                                           parameters_per_file)
       IN  /\ err' = r.raised
           /\ fieldErrs' = r.fields
           /\ validated' = (validated \/ r.raised = "none")
    /\ call' = "validate"
    /\ prevFormat' = format /\ prevValidated' = validated
    /\ UNCHANGED <<cls, format, load_config, parameters_per_file, nsetup>>
    /\ CfgIdle

Next == Setup \/ Validate

Spec == Init /\ [][Next]_vars

(***************************************************************************)
(* _from_dict: the remapping of the legacy keys                            *)
(***************************************************************************)

Has(d, k) == k \in DOMAIN d

\* dict.get(k, dflt)
Get(d, k, dflt) == IF k \in DOMAIN d THEN d[k] ELSE dflt

\* d[k] = v
Put(d, k, v) == [x \in DOMAIN d \cup {k} |-> IF x = k THEN v ELSE d[x]]

\* del d[k]
Del(d, k) == [x \in DOMAIN d \ {k} |-> d[x]]

\* Config._handle_renamed_field(default, old_name, new_name) on the pair
\* st = (the dict, the warnings emitted so far): when the old key is there, warn
\* once and move its value under the new name.
handle_renamed_field(st, old_name, new_name) ==
    IF Has(st.dict, old_name)
    THEN [dict |-> Del(Put(st.dict, new_name, st.dict[old_name]), old_name),
          warned |-> Append(st.warned, old_name)]
    ELSE st

format_is_legacy_OrAbsent(d) == Get(d, "format", None) \in {"huggingface", "external", None}

format_is_legacy_OrDistributed(d) ==
    Get(d, "format", None) \in {"huggingface", "external", "distributed"}

\* default.get("format", None) in ("huggingface", "external")
format_is_legacy(d) == Get(d, "format", None) \in {"huggingface", "external"}

\* CheckpointConfigBase._from_dict up to its super()._from_dict call.
CheckpointConfigBase_from_dict(st) ==
    LET a == handle_renamed_field(st, "imported_type", "model_type")
    IN  IF Has(a.dict, "model_type")
        THEN LET d1 == IF format_is_legacy(a.dict)
                       THEN LET d2 == Put(a.dict, "format", Get(a.dict, "model_type", None))
                            IN  IF d2["format"] = None THEN Put(d2, "format", "auto") ELSE d2
                       ELSE a.dict
             IN  [dict |-> Del(d1, "model_type"), warned |-> Append(a.warned, "model_type")]
        ELSE a

\* CheckpointStateConfigBase._from_dict up to its super()._from_dict call.
CheckpointStateConfigBase_from_dict(st) ==
    handle_renamed_field(handle_renamed_field(st, "load_weights", "model_weights"),
                         "load_optimizer", "optimizer_state")

\* The classes whose method resolution order holds CheckpointStateConfigBase
\* (after CheckpointConfigBase).
StateClasses == {"CheckpointSaveConfig", "CheckpointLoadConfig"}

ParseClasses == {"CheckpointSaveMetadataConfig", "CheckpointLoadMetadataConfig"} \cup StateClasses

\* cls._from_dict(default): the chain of _from_dict along the class's method
\* resolution order, to the dict that reaches Config._from_dict (field parsing).
from_dict(c, d) ==
    LET a == CheckpointConfigBase_from_dict([dict |-> d, warned |-> <<>>])
        b == IF c \in StateClasses THEN CheckpointStateConfigBase_from_dict(a) ELSE a
    IN  [dict |-> b.dict, warned |-> b.warned, passedOn |-> a.dict]

\* The format field of the parsed config: the key's value, else the field's default.
parsed_format(d) == Get(d, "format", StateDictCheckpointFormat.name)

\* ---- bounds and inputs of the parsing specification
MaxParses == 2

DictKeys == <<"format", "model_type", "imported_type", "load_weights", "model_weights",
              "load_optimizer", "optimizer_state", "path">>

\* A dict from its entries given per key as a set: empty (no key) or one value.
MkDict(opts) ==
    LET present == {i \in DOMAIN opts : opts[i] # {}}
    IN  [k \in {DictKeys[i] : i \in present} |->
            LET i == CHOOSE j \in present : DictKeys[j] = k
            IN  CHOOSE v \in opts[i] : TRUE]

DictInputs ==
    {MkDict(<<f, mt, it, lw, mw, lo, os, pa>>) :
        f \in {{}, {"distributed"}, {"state_dict"}, {"huggingface"}, {"external"}},
        mt \in {{}, {"huggingface"}, {"llama"}, {None}},
        it \in {{}, {"mistral"}},
        lw \in {{}, {TRUE}, {FALSE}},
        mw \in {{}, {TRUE}, {FALSE}},
        lo \in {{}, {TRUE}},
        os \in {{}, {FALSE}},
        pa \in {{}, {"ckpt"}}}

ParseIdle ==
    /\ UNCHANGED <<cfgVars, codecVars, loadVars>>

CfgOff ==
    /\ cls = "none" /\ format = FormatName("") /\ validated = FALSE
    /\ load_config = NoField /\ parameters_per_file = NoField
    /\ call = "off" /\ err = "none" /\ fieldErrs = {}
    /\ prevFormat = FormatName("") /\ prevValidated = FALSE /\ nsetup = 0

\* A structured dict as the caller built it, not parsed yet.
InitParse ==
    /\ parseCls \in ParseClasses
    /\ rawDict \in DictInputs
    /\ default = rawDict
    /\ passedOn = rawDict
    /\ warned = <<>>
    /\ nparse = 0
    /\ CfgOff /\ CodecOff /\ LoadOff

\* parseCls._from_dict(default): `default` is remapped in place.
FromDict ==
    /\ nparse < MaxParses
    /\ LET r == from_dict(parseCls, default)
       IN  /\ default' = r.dict
           /\ warned' = r.warned
           /\ passedOn' = r.passedOn
    /\ nparse' = nparse + 1
    /\ UNCHANGED <<parseCls, rawDict>>
    /\ ParseIdle

NextParse == FromDict

SpecParse == InitParse /\ [][NextParse]_vars

(***************************************************************************)
(* The safetensors metadata codec.  A text is a sequence of characters; a  *)
(* Python value is a tagged record.  The YAML modelled is the part the     *)
(* codec meets on these values: plain and single-quoted scalars, the       *)
(* implicit resolution of plain scalars, block sequences and block         *)
(* mappings of scalars, and the empty flow collections.                    *)
(***************************************************************************)

PyStr(chars) == [t |-> "str", s |-> chars]
PyInt(i) == [t |-> "int", n |-> i]
PyBool(x) == [t |-> "bool", b |-> x]
PyNone == [t |-> "NoneType"]
PyList(xs) == [t |-> "list", items |-> xs]
PyDict(f) == [t |-> "dict", map |-> f]

Digits == <<"0", "1", "2", "3", "4", "5", "6", "7", "8", "9">>

DigitValue(c) == (CHOOSE i \in DOMAIN Digits : Digits[i] = c) - 1

IsDigit(c) == \E i \in DOMAIN Digits : Digits[i] = c

RECURSIVE NatToText(_)
NatToText(n) == IF n < 10 THEN <<Digits[n + 1]>> ELSE NatToText(n \div 10) \o <<Digits[(n % 10) + 1]>>

\* str(i) of an int
IntToText(i) == IF i < 0 THEN <<"-">> \o NatToText(-i) ELSE NatToText(i)

RECURSIVE TextToNat(_)
TextToNat(cs) ==
    IF Len(cs) = 0 THEN 0
    ELSE 10 * TextToNat(SubSeq(cs, 1, Len(cs) - 1)) + DigitValue(cs[Len(cs)])

\* yaml's implicit resolver, tag:yaml.org,2002:null
YamlNull == {<<>>, <<"~">>, <<"n", "u", "l", "l">>, <<"N", "u", "l", "l">>, <<"N", "U", "L", "L">>}

\* yaml's implicit resolver, tag:yaml.org,2002:bool
YamlTrue == {<<"y", "e", "s">>, <<"Y", "e", "s">>, <<"Y", "E", "S">>, <<"t", "r", "u", "e">>, <<"T", "r", "u", "e">>, <<"T", "R", "U", "E">>, <<"o", "n">>, <<"O", "n">>, <<"O", "N">>}
YamlFalse == {<<"n", "o">>, <<"N", "o">>, <<"N", "O">>, <<"f", "a", "l", "s", "e">>, <<"F", "a", "l", "s", "e">>, <<"F", "A", "L", "S", "E">>, <<"o", "f", "f">>, <<"O", "f", "f">>, <<"O", "F", "F">>}

\* yaml's implicit resolver, tag:yaml.org,2002:int, its decimal form [-+]?(0|[1-9][0-9]*)
IsYamlInt(cs) ==
    LET body == IF Len(cs) > 0 /\ cs[1] \in {"-", "+"} THEN SubSeq(cs, 2, Len(cs)) ELSE cs
    IN  /\ Len(body) > 0
        /\ \A i \in DOMAIN body : IsDigit(body[i])
        /\ (body[1] = "0" => Len(body) = 1)

\* The value a plain scalar resolves to.
Resolve(cs) ==
    IF cs \in YamlNull THEN PyNone
    ELSE IF cs \in YamlTrue THEN PyBool(TRUE)
    ELSE IF cs \in YamlFalse THEN PyBool(FALSE)
    ELSE IF IsYamlInt(cs)
         THEN IF cs[1] = "-" THEN PyInt(-TextToNat(SubSeq(cs, 2, Len(cs))))
              ELSE IF cs[1] = "+" THEN PyInt(TextToNat(SubSeq(cs, 2, Len(cs))))
              ELSE PyInt(TextToNat(cs))
    ELSE PyStr(cs)

\* str(value) of a str, an int or a bool
PyStrOf(v) ==
    CASE v.t = "str" -> v.s
      [] v.t = "int" -> IntToText(v.n)
      [] v.t = "bool" -> IF v.b THEN <<"T", "r", "u", "e">> ELSE <<"F", "a", "l", "s", "e">>

\* yaml's representation of a scalar inside a dumped collection: a str is plain
\* when a plain scalar of that text resolves to a str, single-quoted otherwise.
Represent(v) ==
    CASE v.t = "str" -> IF Resolve(v.s).t = "str" THEN v.s ELSE <<"'">> \o v.s \o <<"'">>
      [] v.t = "int" -> IntToText(v.n)
      [] v.t = "bool" -> IF v.b THEN <<"t", "r", "u", "e">> ELSE <<"f", "a", "l", "s", "e">>
      [] v.t = "NoneType" -> <<"n", "u", "l", "l">>

\* The lower-case letters in code point order.
Letters == <<"a", "b", "c", "d", "e", "f", "g", "h", "i", "j", "k", "l", "m",
             "n", "o", "p", "q", "r", "s", "t", "u", "v", "w", "x", "y", "z">>

CodePoint(c) == 96 + (CHOOSE i \in DOMAIN Letters : Letters[i] = c)

\* The order yaml.safe_dump sorts mapping keys in: str keys, by code point.
RECURSIVE TextLess(_, _)
TextLess(a, b) ==
    IF Len(a) = 0 THEN Len(b) > 0
    ELSE IF Len(b) = 0 THEN FALSE
    ELSE IF a[1] = b[1] THEN TextLess(Tail(a), Tail(b))
    ELSE CodePoint(a[1]) < CodePoint(b[1])

RECURSIVE SortedKeys(_)
SortedKeys(ks) ==
    IF ks = {} THEN <<>>
    ELSE LET k == CHOOSE x \in ks : \A y \in ks \ {x} : TextLess(x, y)
         IN  <<k>> \o SortedKeys(ks \ {k})

RECURSIVE DumpItems(_)
DumpItems(xs) ==
    IF Len(xs) = 0 THEN <<>>
    ELSE <<"-", " ">> \o Represent(Head(xs)) \o <<"\n">> \o DumpItems(Tail(xs))

RECURSIVE DumpEntries(_, _)
DumpEntries(ks, f) ==
    IF Len(ks) = 0 THEN <<>>
    ELSE Represent(PyStr(Head(ks))) \o <<":", " ">> \o Represent(f[Head(ks)]) \o <<"\n">>
         \o DumpEntries(Tail(ks), f)

\* yaml.safe_dump(value) of a list or a dict of scalars (block style).
safe_dump(v) ==
    CASE v.t = "list" -> IF Len(v.items) = 0 THEN <<"[", "]", "\n">> ELSE DumpItems(v.items)
      [] v.t = "dict" -> IF DOMAIN v.map = {} THEN <<"{", "}", "\n">>
                         ELSE DumpEntries(SortedKeys(DOMAIN v.map), v.map)

\* The lines of a text, without their line ends.
RECURSIVE Lines(_)
Lines(cs) ==
    IF Len(cs) = 0 THEN <<>>
    ELSE IF \E i \in DOMAIN cs : cs[i] = "\n"
         THEN LET i == CHOOSE j \in DOMAIN cs : cs[j] = "\n" /\ \A k \in 1..(j - 1) : cs[k] # "\n"
              IN  <<SubSeq(cs, 1, i - 1)>> \o Lines(SubSeq(cs, i + 1, Len(cs)))
         ELSE <<cs>>

\* A scalar node: single-quoted (always a str) or plain (resolved).
LoadScalar(cs) ==
    IF Len(cs) >= 2 /\ cs[1] = "'" /\ cs[Len(cs)] = "'"
    THEN PyStr(SubSeq(cs, 2, Len(cs) - 1))
    ELSE Resolve(cs)

\* The place of the first ": " of a line, 0 when it has none.
KeyEnd(l) ==
    IF \E i \in 1..(Len(l) - 1) : l[i] = ":" /\ l[i + 1] = " "
    THEN CHOOSE i \in 1..(Len(l) - 1) :
            /\ l[i] = ":" /\ l[i + 1] = " "
            /\ \A k \in 1..(i - 1) : ~(l[k] = ":" /\ l[k + 1] = " ")
    ELSE 0

\* yaml.safe_load(text)
safe_load(cs) ==
    LET ls == Lines(cs)
    IN  IF Len(ls) = 0 THEN PyNone
        ELSE IF ls = <<<<"[", "]">>>> THEN PyList(<<>>)
        ELSE IF ls = <<<<"{", "}">>>> THEN PyDict(<<>>)
        ELSE IF \A i \in DOMAIN ls : Len(ls[i]) >= 2 /\ ls[i][1] = "-" /\ ls[i][2] = " "
             THEN PyList([i \in DOMAIN ls |-> LoadScalar(SubSeq(ls[i], 3, Len(ls[i])))])
        ELSE IF \A i \in DOMAIN ls : KeyEnd(ls[i]) > 0
             THEN PyDict([k \in {LoadScalar(SubSeq(ls[i], 1, KeyEnd(ls[i]) - 1)).s : i \in DOMAIN ls} |->
                            LET i == CHOOSE j \in DOMAIN ls :
                                        LoadScalar(SubSeq(ls[j], 1, KeyEnd(ls[j]) - 1)).s = k
                            IN  LoadScalar(SubSeq(ls[i], KeyEnd(ls[i]) + 2, Len(ls[i])))])
        ELSE LoadScalar(ls[1])

\* isinstance(value, (str, int, float, bool)); the values of the model hold no float.
IsPrimitive(v) == v.t \in {"str", "int", "bool"}

\* str(value) if isinstance(value, (str, int, float, bool)) else yaml.safe_dump(value)
export_value(v) == IF IsPrimitive(v) THEN PyStrOf(v) ELSE safe_dump(v)

export_safetensors_metadata(m) == [key \in DOMAIN m |-> export_value(m[key])]

import_safetensors_metadata(m) == [key \in DOMAIN m |-> safe_load(m[key])]

\* ---- bounds and inputs of the codec specification
MaxLen == 2

StrInputs == {<<"p", "t">>, <<"1">>, <<"t", "r", "u", "e">>, <<"n", "u", "l", "l">>, <<>>, <<"1", "0">>}

ScalarInputs ==
    {PyStr(x) : x \in StrInputs} \cup {PyInt(i) : i \in {-1, 0, 1, 10}}
    \cup {PyBool(x) : x \in BOOLEAN}

NestedScalars == {PyStr(<<"p", "t">>), PyStr(<<"1">>), PyInt(1), PyBool(TRUE)}

NestedKeys == {<<"a">>, <<"b">>}

ListInputs == UNION {{PyList(xs) : xs \in [1..n -> NestedScalars]} : n \in 0..MaxLen}

DictInputs2 ==
    UNION {{PyDict(f) : f \in [ks -> NestedScalars]} : ks \in SUBSET NestedKeys}

ValueInputs == ScalarInputs \cup ListInputs \cup DictInputs2

MetadataKeys == {"format", "step"}

MetadataInputs == UNION {[ks -> ValueInputs] : ks \in SUBSET MetadataKeys}

CodecIdle ==
    /\ UNCHANGED <<cfgVars, parseVars, loadVars>>

\* A metadata mapping, not exported yet.
InitCodec ==
    /\ metadata \in MetadataInputs
    /\ exported = <<>>
    /\ imported = <<>>
    /\ codecPc = "start"
    /\ CfgOff /\ ParseOff /\ LoadOff

Export ==
    /\ codecPc = "start"
    /\ exported' = export_safetensors_metadata(metadata)
    /\ codecPc' = "exported"
    /\ UNCHANGED <<metadata, imported>>
    /\ CodecIdle

Import ==
    /\ codecPc = "exported"
    /\ imported' = import_safetensors_metadata(exported)
    /\ codecPc' = "imported"
    /\ UNCHANGED <<metadata, exported>>
    /\ CodecIdle

NextCodec == Export \/ Import

SpecCodec == InitCodec /\ [][NextCodec]_vars

(***************************************************************************)
(* The checkpoint handler protocol: one save or load invocation            *)
(***************************************************************************)

CHECKPOINT_VERSION == "0.1"

KNOWN_CHECKPOINT_VERSIONS_OnlyOldest == {"0"}

KNOWN_CHECKPOINT_VERSIONS == {"0", "0.1"}

\* The versions a checkpoint found on disk may record.
DiskVersions == {"0", "0.1", "0.2", "1"}

\* The subsystems a CheckpointStateConfigBase selects.
Selected(c) ==
    (IF c.model_weights THEN {"model_weights"} ELSE {})
    \cup (IF c.optimizer_state THEN {"optimizer_state"} ELSE {})

\* The configuration scopes a load_config value restores.
Scopes(t) ==
    (IF load_architecture(t) THEN {"architecture"} ELSE {})
    \cup (IF load_base_model(t) THEN {"base_model"} ELSE {})
    \cup (IF load_fast_llm(t) THEN {"fast_llm"} ELSE {})

LoadConfigs ==
    [load_config : ModelConfigType, model_weights : BOOLEAN, optimizer_state : BOOLEAN]

LoadIdle ==
    /\ UNCHANGED <<cfgVars, parseVars, codecVars>>

\* A checkpoint on disk, a load config, and no handler yet.
InitLoad ==
    /\ hstate = "Unbound"
    /\ ckptVersion \in DiskVersions
    /\ ckptWriter = "other"
    /\ stateCfg \in LoadConfigs
    /\ restored = {}
    /\ failure = "none"
    /\ CfgOff /\ ParseOff /\ CodecOff

\* CheckpointHandler.__init__(model)
Bind ==
    /\ hstate = "Unbound"
    /\ hstate' = "Bound"
    /\ UNCHANGED <<ckptVersion, ckptWriter, stateCfg, restored, failure>>
    /\ LoadIdle

\* handler.save(config, metadata): the checkpoint now records this build's version.
Save ==
    /\ hstate = "Bound"
    /\ ckptVersion' = CHECKPOINT_VERSION
    /\ ckptWriter' = "this_build"
    /\ hstate' = "Done"
    /\ UNCHANGED <<stateCfg, restored, failure>>
    /\ LoadIdle

\* handler.load(config, metadata), its first step: the version check.
LoadBegin ==
    /\ hstate = "Bound"
    /\ IF ckptVersion \in KNOWN_CHECKPOINT_VERSIONS
       THEN hstate' = "Loading" /\ failure' = "none"
       ELSE hstate' = "Failed" /\ failure' = "UnsupportedCheckpointVersion"
    /\ UNCHANGED <<ckptVersion, ckptWriter, stateCfg, restored>>
    /\ LoadIdle

\* handler.load, the load-scope policy: applied before any weight is touched.
ApplyScope ==
    /\ hstate = "Loading"
    /\ hstate' = "Restoring"
    /\ restored' = restored \cup Scopes(stateCfg.load_config)
    /\ UNCHANGED <<ckptVersion, ckptWriter, stateCfg, failure>>
    /\ LoadIdle

\* handler.load, the restoration of one selected subsystem.
Restore ==
    /\ hstate = "Restoring"
    /\ \E x \in Selected(stateCfg) \ restored : restored' = restored \cup {x}
    /\ UNCHANGED <<hstate, ckptVersion, ckptWriter, stateCfg, failure>>
    /\ LoadIdle

\* handler.load returns.
LoadEnd ==
    /\ hstate = "Restoring"
    /\ Selected(stateCfg) \subseteq restored
    /\ hstate' = "Done"
    /\ UNCHANGED <<ckptVersion, ckptWriter, stateCfg, restored, failure>>
    /\ LoadIdle

\* The next invocation, with its own handler and load config.
NewInvocation ==
    /\ hstate \in {"Done", "Failed"}
    /\ hstate' = "Unbound"
    /\ stateCfg' \in LoadConfigs
    /\ restored' = {}
    /\ failure' = "none"
    /\ UNCHANGED <<ckptVersion, ckptWriter>>
    /\ LoadIdle

NextLoad == Bind \/ Save \/ LoadBegin \/ ApplyScope \/ Restore \/ LoadEnd \/ NewInvocation

SpecLoad == InitLoad /\ [][NextLoad]_vars

(***************************************************************************)
(* The properties                                                          *)
(***************************************************************************)

\* How many of the warnings of the last parse name key k.
WarningsFor(k) == Cardinality({i \in DOMAIN warned : warned[i] = k})

\* The legacy keys _from_dict of class c remaps.
LegacyKeys(c) ==
    {"imported_type", "model_type"}
    \cup (IF c \in StateClasses THEN {"load_weights", "load_optimizer"} ELSE {})

\* C1: validating a load config whose format is resolved fails on the scope
\* assertion exactly when the format enforces the architecture match and
\* load_config is none (so for distributed with none); with model or fast_llm
\* it passes; no validation of any config fails on the scope assertion otherwise.
C1_ScopeRejectedOnlyForEnforcedNone ==
    (call = "validate" /\ ~prevValidated) =>
        /\ (err = "AssertionError") <=>
              (/\ cls \in LoadClasses
               /\ format.kind = "class"
               /\ format.enforce_architecture_match
               /\ load_config = "none")
        /\ (cls \in LoadClasses /\ format.kind = "class" /\ format.name = "distributed"
            /\ load_config = "none") => (err = "AssertionError" /\ ~validated)
        /\ (cls \in LoadClasses /\ format.kind = "class"
            /\ load_config \in {"model", "fast_llm"}) => (err = "none" /\ validated)

C1_Witness ==
    /\ call = "validate" /\ cls \in LoadClasses /\ ~prevValidated
    /\ format = DistributedCheckpointFormat /\ load_config = "none"
    /\ err = "AssertionError" /\ ~validated

\* C2, as stated: a second call to setup raises whether or not validation
\* happened in between, a setup after validation raises, and a rejected setup
\* leaves format unchanged.
C2_SecondSetupRaises ==
    (call = "setup" /\ (nsetup >= 2 \/ prevValidated)) =>
        (err # "none" /\ format = prevFormat)

\* C2, amended: a setup after validation raises; a rejected setup leaves format
\* unchanged; a setup before validation on a format already resolved against the
\* model's formats (a second setup after a successful first) raises nothing and
\* leaves format unchanged.
C2_SetupAfterValidationRaises ==
    call = "setup" =>
        /\ prevValidated => err = "AssertionError"
        /\ err # "none" => format = prevFormat
        /\ (~prevValidated /\ prevFormat \in checkpoint_formats) =>
              (err = "none" /\ format = prevFormat)

C2_Witness ==
    /\ call = "setup" /\ nsetup >= 2 /\ prevValidated
    /\ err = "AssertionError" /\ format = prevFormat

\* C7: validating a save config reports parameters_per_file exactly when the
\* value is below 2^20 (its high limb below 16); 2^20 - 1 is rejected, 2^20 and
\* the default 2^32 are accepted.
C7_ParametersPerFileMinimum ==
    (call = "validate" /\ cls \in SaveClasses /\ ~prevValidated) =>
        /\ ("parameters_per_file" \in fieldErrs) <=> (parameters_per_file.hi < 16)
        /\ parameters_per_file = Int2(15, 65535) => (err = "ValidationError" /\ ~validated)
        /\ (parameters_per_file \in {Int2(16, 0), Int2(65536, 0)} /\ format.kind = "class")
              => (err = "none" /\ validated)
        /\ parameters_per_file_default = Int2(65536, 0)

C7_Witness ==
    /\ call = "validate" /\ cls \in SaveClasses /\ ~prevValidated
    /\ parameters_per_file = Int2(15, 65535)
    /\ "parameters_per_file" \in fieldErrs /\ ~validated

\* C8: the scopes of the four ModelConfigType values are cumulative, and each
\* value has exactly the scopes the enumeration documents.
C8_CumulativeScopes ==
    cls \in LoadClasses =>
        LET a == load_architecture(load_config)
            b == load_base_model(load_config)
            f == load_fast_llm(load_config)
        IN  /\ f => b
            /\ b => a
            /\ load_config = "none" => (~a /\ ~b /\ ~f)
            /\ load_config = "architecture" => (a /\ ~b /\ ~f)
            /\ load_config = "model" => (a /\ b /\ ~f)
            /\ load_config = "fast_llm" => (a /\ b /\ f)

C8_Witness ==
    /\ cls \in LoadClasses /\ load_config = "model"
    /\ load_architecture(load_config) /\ load_base_model(load_config)
    /\ ~load_fast_llm(load_config)

\* C10: compare_log_fn is the hard error exactly for the load_config values
\* that load the architecture and the warning logger exactly for none; a
\* validated load config whose format enforces the architecture match
\* (distributed) has the hard error.
C10_CompareLogFn ==
    cls \in LoadClasses =>
        /\ (compare_log_fn(load_config) = "ValueError")
              <=> (load_config \in {"architecture", "model", "fast_llm"})
        /\ (compare_log_fn(load_config) = "logger.warning") <=> (load_config = "none")
        /\ (validated /\ format.kind = "class" /\ format.enforce_architecture_match)
              => compare_log_fn(load_config) = "ValueError"
        /\ (validated /\ format.name = "distributed")
              => compare_log_fn(load_config) = "ValueError"

C10_Witness ==
    /\ cls \in LoadClasses /\ validated /\ call = "validate"
    /\ format = DistributedCheckpointFormat
    /\ compare_log_fn(load_config) = "ValueError"

\* C4, as stated: a dict with model_type = "huggingface" and no format key
\* parses to format "huggingface", with a deprecation warning.
C4_ModelTypeBecomesFormat ==
    (/\ nparse = 1
     /\ Has(rawDict, "model_type") /\ rawDict["model_type"] = "huggingface"
     /\ ~Has(rawDict, "format")) =>
        (parsed_format(default) = "huggingface" /\ WarningsFor("model_type") >= 1)

\* C4, amended: a dict with model_type = "huggingface" and no format key parses
\* with the format key still absent, so format is the default "state_dict";
\* model_type is dropped and the deprecation warning is emitted.
C4_ModelTypeDroppedFormatDefault ==
    (/\ nparse = 1
     /\ Has(rawDict, "model_type") /\ rawDict["model_type"] = "huggingface"
     /\ ~Has(rawDict, "format")) =>
        /\ ~Has(default, "format")
        /\ parsed_format(default) = "state_dict"
        /\ ~Has(default, "model_type")
        /\ WarningsFor("model_type") = 1

C4_Witness ==
    /\ nparse = 1
    /\ Has(rawDict, "model_type") /\ rawDict["model_type"] = "huggingface"
    /\ ~Has(rawDict, "format")
    /\ ~Has(default, "format") /\ ~Has(default, "model_type")
    /\ WarningsFor("model_type") = 1

\* C5, as stated: with model_type set and format "distributed", the dict handed
\* to field parsing keeps format "distributed", has no model_type, has every
\* other key unchanged, and a deprecation warning was emitted.
C5_OnlyModelTypeDropped ==
    (nparse = 1 /\ Has(rawDict, "model_type") /\ Get(rawDict, "format", None) = "distributed") =>
        /\ Get(passedOn, "format", None) = "distributed"
        /\ ~Has(passedOn, "model_type")
        /\ DOMAIN passedOn = DOMAIN rawDict \ {"model_type"}
        /\ \A k \in DOMAIN passedOn : passedOn[k] = rawDict[k]
        /\ WarningsFor("model_type") = 1

\* C5, amended: as stated, except that the legacy alias imported_type, when
\* present, is removed as well; every key other than model_type and
\* imported_type is unchanged.
C5_ModelTypeAndAliasDropped ==
    (nparse = 1 /\ Has(rawDict, "model_type") /\ Get(rawDict, "format", None) = "distributed") =>
        /\ Get(passedOn, "format", None) = "distributed"
        /\ ~Has(passedOn, "model_type")
        /\ DOMAIN passedOn = DOMAIN rawDict \ {"model_type", "imported_type"}
        /\ \A k \in DOMAIN passedOn : passedOn[k] = rawDict[k]
        /\ WarningsFor("model_type") = 1

C5_Witness ==
    /\ nparse = 1 /\ Has(rawDict, "model_type") /\ rawDict["model_type"] = "llama"
    /\ Get(rawDict, "format", None) = "distributed"
    /\ Has(rawDict, "path")
    /\ Get(passedOn, "format", None) = "distributed" /\ ~Has(passedOn, "model_type")
    /\ Has(passedOn, "path")

\* C6: in the first parse every legacy key of the input is warned about exactly
\* once and no absent key is warned about; load_weights and load_optimizer land
\* under model_weights and optimizer_state; parsing the remapped dict again
\* warns about nothing and leaves no legacy key.
C6_OneWarningPerLegacyKey ==
    /\ nparse = 1 =>
          /\ \A k \in LegacyKeys(parseCls) :
                WarningsFor(k) = (IF Has(rawDict, k) THEN 1 ELSE 0)
          /\ Len(warned) = Cardinality(LegacyKeys(parseCls) \cap DOMAIN rawDict)
          /\ (parseCls \in StateClasses /\ Has(rawDict, "load_weights")) =>
                (Has(default, "model_weights")
                 /\ default["model_weights"] = rawDict["load_weights"])
          /\ (parseCls \in StateClasses /\ Has(rawDict, "load_optimizer")) =>
                (Has(default, "optimizer_state")
                 /\ default["optimizer_state"] = rawDict["load_optimizer"])
    /\ nparse >= 1 => LegacyKeys(parseCls) \cap DOMAIN default = {}
    /\ nparse >= 2 => warned = <<>>

\* C3: the metadata codec round trip: importing the exported mapping gives the
\* mapping back, every value with its type and content.
C3_RoundTrip ==
    codecPc = "imported" => imported = metadata

====
